---- MODULE Spec2Model ----
(***************************************************************************)
(* Model of src/datalama.py: the DataLama session facade.                  *)
(*                                                                         *)
(* The state is the part of the filesystem the constructor looks at (the   *)
(* source directory with its files, the cache directory with its           *)
(* directories and persisted artifacts, all with modification times), the  *)
(* wall clock that stamps modifications, and the fields of the current     *)
(* DataLama object.  Timestamps are clock ticks.  Elapsed perf_counter     *)
(* time is counted in hundredths of a second.                              *)
(*                                                                         *)
(* The collaborators (document reader, index builder, persistence, query   *)
(* engine) are external; they are modelled by what they do to this state:  *)
(* they return, or they raise.  Backend configuration (lines 31-33) is     *)
(* taken to succeed.                                                       *)
(***************************************************************************)
EXTENDS Integers, Sequences, FiniteSets, TLC

\* ---------------------------------------------------------------- bounds
MaxTime == 2
NumSrcFiles == 2
MaxQueries == 2
MaxElapsed == 6
MaxLoadElapsed == 1

\* ------------------------------------------------------------- universes
SrcFileIds == 1..NumSrcFiles
Root == "persistent"
SubDir == "persistent/sub"
Artifacts == {"docstore.json", "index_store.json"}
Questions == {"", "Who own the one ring?"}
EngineResults == {<<"value", "Sauron">>, <<"raise", "BackendError">>}
Elapsed == 0..MaxElapsed
LoadElapsed == 0..MaxLoadElapsed

VARIABLES
  now,             \* wall clock (stamps file and directory modifications)
  srcExists,       \* path_to_data exists
  srcFiles,        \* regular files under path_to_data -> mtime
  cacheExists,     \* persistent_dir exists
  cacheDirs,       \* directories under persistent_dir (itself included) -> mtime
  cacheFiles,      \* files directly in persistent_dir -> mtime
  pc,              \* "none" | "ready" | "failed": state of the current object
  path,            \* branch the last constructor took: "none" | "rebuild" | "reload"
  chk,             \* <<>> if _needs_reindexing was not called, else <<its result>>
  loadDuration,    \* <<>> while unset, else <<self._load_duration>>
  queryDurations,  \* self._query_durations
  call,            \* the last call on the API: what went in, what came out
  okQueries,       \* query() calls on the current object that returned
  srcClean         \* a constructor has completed and the source is unchanged since

vars == <<now, srcExists, srcFiles, cacheExists, cacheDirs, cacheFiles, pc,
          path, chk, loadDuration, queryDurations, call, okQueries, srcClean>>

fsVars == <<srcExists, srcFiles, cacheExists, cacheDirs, cacheFiles>>
cacheVars == <<cacheExists, cacheDirs, cacheFiles>>
objVars == <<pc, path, chk, loadDuration, queryDurations, okQueries>>

\* ------------------------------------------------------------- helpers
EmptyMap == [x \in {} |-> 0]

Max(S) == CHOOSE m \in S : \A x \in S : m >= x

NoCall == [op |-> "none", arg |-> <<>>, fwd |-> <<>>, out |-> <<>>, ret |-> <<>>]

\* os.walk(data_dir): one visit order of the regular files under data_dir.
\* os.walk ignores scandir errors (onerror=None), so a missing directory
\* yields nothing.
Walk(exists, files) ==
  IF ~exists THEN {<<>>}
  ELSE {s \in [1..Cardinality(DOMAIN files) -> DOMAIN files] :
          \A i, j \in DOMAIN s : s[i] = s[j] => i = j}

\* persistent_time = max(getmtime(root) for root, _, _ in os.walk(persistent_dir))
PersistentTime(dirs) == Max({dirs[d] : d \in DOMAIN dirs})

\* ScanFiles with >= for > : a file as old as the cache counts as newer.
RECURSIVE ScanFilesNotOlder(_, _, _, _)
ScanFilesNotOlder(files, order, i, persistent_time) ==
  IF i > Len(order) THEN FALSE
  ELSE IF files[order[i]] >= persistent_time THEN TRUE
  ELSE ScanFilesNotOlder(files, order, i + 1, persistent_time)

\* The loop of _needs_reindexing from position i of the visit order.
RECURSIVE ScanFiles(_, _, _, _)
ScanFiles(files, order, i, persistent_time) ==
  IF i > Len(order) THEN FALSE
  ELSE IF files[order[i]] > persistent_time THEN TRUE
  ELSE ScanFiles(files, order, i + 1, persistent_time)

NeedsReindexing(dirs, files, order) ==
  ScanFiles(files, order, 1, PersistentTime(dirs))

\* round(x, 1) on hundredths of a second: nearest tenth, ties to even.  The
\* measured time is a float; a tie on this grid stands for an exact tie.
Round1(e) ==
  LET q == e \div 10
      r == e % 10
  IN  IF r < 5 THEN q * 10
      ELSE IF r > 5 THEN (q + 1) * 10
      ELSE IF q % 2 = 0 THEN q * 10 ELSE (q + 1) * 10

\* ------------------------------------------------------------- Init
Init ==
  /\ now = 0
  /\ srcExists = TRUE
  /\ \E S \in SUBSET SrcFileIds : srcFiles = [f \in S |-> 0]
  /\ \/ /\ cacheExists = FALSE
        /\ cacheDirs = EmptyMap
     \/ /\ cacheExists = TRUE
        /\ cacheDirs = [d \in {Root} |-> 0]
  /\ cacheFiles = EmptyMap
  /\ pc = "none"
  /\ path = "none"
  /\ chk = <<>>
  /\ loadDuration = <<>>
  /\ queryDurations = <<>>
  /\ call = NoCall
  /\ okQueries = 0
  /\ srcClean = FALSE

\* ------------------------------------------------------------- constructor
\* TakeRebuild without the test for a missing cache directory.
TakeRebuildIfStale(exists, dirs, files, order) ==
  exists /\ NeedsReindexing(dirs, files, order)

\* Line 40: not persistent_dir.exists() or self._needs_reindexing(...)
TakeRebuild(exists, dirs, files, order) ==
  ~exists \/ NeedsReindexing(dirs, files, order)

\* What the evaluation of line 40 did with _needs_reindexing: `or` evaluates
\* its right operand only when the left one is false.
StalenessCheck(exists, dirs, files, order) ==
  IF ~exists THEN <<>> ELSE <<NeedsReindexing(dirs, files, order)>>

\* Line 46, index.storage_context.persist(persistent_dir): the directory is
\* made when missing, then each artifact is opened for writing.  Writing an
\* artifact that is already there rewrites it in place and leaves the
\* directory's mtime alone; a new entry stamps the directory.
PersistDirs(exists, dirs, files, t) ==
  IF ~exists THEN [d \in {Root} |-> t]
  ELSE IF Artifacts \subseteq DOMAIN files THEN dirs
  ELSE [dirs EXCEPT ![Root] = t]

PersistFiles(files, t) ==
  [a \in (DOMAIN files) \cup Artifacts |-> IF a \in Artifacts THEN t ELSE files[a]]

\* Lines 43-44 need documents: SimpleDirectoryReader raises on a missing or
\* empty directory.
Readable == srcExists /\ DOMAIN srcFiles # {}

\* Line 51 needs the persisted artifacts.
Loadable == Artifacts \subseteq DOMAIN cacheFiles

\* CacheAfter with the persist call outside the if: it runs on both branches.
CacheAfterPersistAlways(rebuild, done, t) ==
  IF done
    THEN [exists |-> TRUE,
          dirs |-> PersistDirs(cacheExists, cacheDirs, cacheFiles, t),
          files |-> PersistFiles(cacheFiles, t)]
    ELSE [exists |-> cacheExists, dirs |-> cacheDirs, files |-> cacheFiles]

\* The cache directory after lines 40-51: persist (line 46) is reached only
\* on the rebuild branch, after the documents were read and the index built.
CacheAfter(rebuild, done, t) ==
  IF rebuild /\ done
    THEN [exists |-> TRUE,
          dirs |-> PersistDirs(cacheExists, cacheDirs, cacheFiles, t),
          files |-> PersistFiles(cacheFiles, t)]
    ELSE [exists |-> cacheExists, dirs |-> cacheDirs, files |-> cacheFiles]

\* DataLama(persistent_dir, path_to_data).  order: the order in which
\* os.walk visits the source files; ok: the collaborators do not raise;
\* elapsed: perf_counter time across lines 37-54.
Construct(order, ok, elapsed) ==
  /\ order \in Walk(srcExists, srcFiles)
  /\ LET rebuild == TakeRebuild(cacheExists, cacheDirs, srcFiles, order)
         done == ok /\ (IF rebuild THEN Readable ELSE Loadable)
         err == IF ~ok THEN "BackendError"
                ELSE IF rebuild THEN "ValueError" ELSE "FileNotFoundError"
     IN  /\ chk' = StalenessCheck(cacheExists, cacheDirs, srcFiles, order)
         /\ path' = IF rebuild THEN "rebuild" ELSE "reload"
         /\ cacheExists' = CacheAfter(rebuild, done, now).exists
         /\ cacheDirs' = CacheAfter(rebuild, done, now).dirs
         /\ cacheFiles' = CacheAfter(rebuild, done, now).files
         /\ pc' = IF done THEN "ready" ELSE "failed"
         /\ loadDuration' = IF done THEN <<elapsed>> ELSE <<>>
         /\ queryDurations' = <<>>
         /\ okQueries' = 0
         /\ call' = [op |-> "construct", arg |-> <<>>, fwd |-> <<>>, out |-> <<>>,
                     ret |-> IF done THEN <<"value", "DataLama">> ELSE <<"raise", err>>]
         /\ srcClean' = (done \/ srcClean)
  /\ UNCHANGED <<now, srcExists, srcFiles>>

\* ------------------------------------------------------------- methods
\* DurationsAfter as with the append in a finally clause.
DurationsAfterAlways(durations, res, elapsed) ==
  Append(durations, Round1(elapsed))

\* Lines 85-87: the duration is appended after the engine call returned; an
\* engine call that raises leaves the method at line 85.
DurationsAfter(durations, res, elapsed) ==
  IF res[1] = "value" THEN Append(durations, Round1(elapsed)) ELSE durations

\* Query that stores the measured time in the load duration as well.
QueryClobbersLoad(msg, res, elapsed) ==
  /\ pc = "ready"
  /\ res[1] = "value" => Len(queryDurations) < MaxQueries
  /\ queryDurations' = DurationsAfter(queryDurations, res, elapsed)
  /\ loadDuration' = IF res[1] = "value" THEN <<Round1(elapsed)>> ELSE loadDuration
  /\ okQueries' = IF res[1] = "value" THEN okQueries + 1 ELSE okQueries
  /\ call' = [op |-> "query", arg |-> <<msg>>, fwd |-> <<msg>>, out |-> res,
              ret |-> res]
  /\ UNCHANGED <<now, fsVars, pc, path, chk, srcClean>>

\* Query that calls the engine a second time when the first call raises.
QueryRetries(msg, res, elapsed) ==
  /\ pc = "ready"
  /\ res[1] = "value" => Len(queryDurations) < MaxQueries
  /\ queryDurations' = DurationsAfter(queryDurations, res, elapsed)
  /\ okQueries' = IF res[1] = "value" THEN okQueries + 1 ELSE okQueries
  /\ call' = [op |-> "query", arg |-> <<msg>>,
              fwd |-> IF res[1] = "value" THEN <<msg>> ELSE <<msg, msg>>,
              out |-> res, ret |-> res]
  /\ UNCHANGED <<now, fsVars, pc, path, chk, loadDuration, srcClean>>

\* query(msg), lines 83-89.  res: what self.query_engine.query(msg) does,
\* elapsed: perf_counter time across lines 83-86.  msg goes to the engine as
\* it is, and what the engine returns or raises is what the caller gets.
Query(msg, res, elapsed) ==
  /\ pc = "ready"
  /\ res[1] = "value" => Len(queryDurations) < MaxQueries
  /\ queryDurations' = DurationsAfter(queryDurations, res, elapsed)
  /\ okQueries' = IF res[1] = "value" THEN okQueries + 1 ELSE okQueries
  /\ call' = [op |-> "query", arg |-> <<msg>>, fwd |-> <<msg>>, out |-> res,
              ret |-> res]
  /\ UNCHANGED <<now, fsVars, pc, path, chk, loadDuration, srcClean>>

\* get_load_duration(), line 68
GetLoadDuration ==
  /\ pc = "ready"
  /\ call' = [op |-> "get_load_duration", arg |-> <<>>, fwd |-> <<>>, out |-> <<>>,
              ret |-> <<"value", loadDuration[1]>>]
  /\ UNCHANGED <<now, fsVars, objVars, srcClean>>

\* get_query_durations(), line 74
GetQueryDurations ==
  /\ pc = "ready"
  /\ call' = [op |-> "get_query_durations", arg |-> <<>>, fwd |-> <<>>, out |-> <<>>,
              ret |-> <<"value", queryDurations>>]
  /\ UNCHANGED <<now, fsVars, objVars, srcClean>>

\* ------------------------------------------------------------- environment
Tick ==
  /\ now < MaxTime
  /\ now' = now + 1
  /\ call' = NoCall
  /\ UNCHANGED <<fsVars, objVars, srcClean>>

\* A file under the source directory is created or modified.
TouchSource(f) ==
  /\ srcExists
  /\ srcFiles' = [g \in (DOMAIN srcFiles) \cup {f} |-> IF g = f THEN now ELSE srcFiles[g]]
  /\ srcClean' = FALSE
  /\ call' = NoCall
  /\ UNCHANGED <<now, srcExists, cacheVars, objVars>>

\* The source directory is removed with everything under it.
RemoveSource ==
  /\ srcExists
  /\ srcExists' = FALSE
  /\ srcFiles' = EmptyMap
  /\ srcClean' = FALSE
  /\ call' = NoCall
  /\ UNCHANGED <<now, cacheVars, objVars>>

\* The source directory is made again, empty.
MakeSource ==
  /\ ~srcExists
  /\ srcExists' = TRUE
  /\ srcClean' = FALSE
  /\ call' = NoCall
  /\ UNCHANGED <<now, srcFiles, cacheVars, objVars>>

\* Something is written into a subdirectory of the cache directory; making
\* the subdirectory stamps the cache directory too.
TouchCacheSub ==
  /\ cacheExists
  /\ cacheDirs' = IF SubDir \in DOMAIN cacheDirs
                    THEN [cacheDirs EXCEPT ![SubDir] = now]
                    ELSE [d \in {Root, SubDir} |-> now]
  /\ call' = NoCall
  /\ UNCHANGED <<now, srcExists, srcFiles, cacheExists, cacheFiles, objVars, srcClean>>

Next ==
  \/ \E order \in Walk(srcExists, srcFiles), ok \in BOOLEAN, elapsed \in LoadElapsed : Construct(order, ok, elapsed)
  \/ \E msg \in Questions, res \in EngineResults, elapsed \in Elapsed : Query(msg, res, elapsed)
  \/ GetLoadDuration
  \/ GetQueryDurations
  \/ Tick
  \/ \E f \in SrcFileIds : TouchSource(f)
  \/ RemoveSource
  \/ MakeSource
  \/ TouchCacheSub

Spec == Init /\ [][Next]_vars

\* The program against a changing filesystem: constructions interleaved
\* with the clock and with changes to the source and cache directories.
NextFS ==
  \/ \E order \in Walk(srcExists, srcFiles), ok \in BOOLEAN, elapsed \in LoadElapsed : Construct(order, ok, elapsed)
  \/ Tick
  \/ \E f \in SrcFileIds : TouchSource(f)
  \/ RemoveSource
  \/ MakeSource
  \/ TouchCacheSub

SpecFS == Init /\ [][NextFS]_vars

\* The program as its callers drive it: constructions and method calls as
\* time passes, nobody else touching the two directories.
NextAPI ==
  \/ \E order \in Walk(srcExists, srcFiles), ok \in BOOLEAN, elapsed \in LoadElapsed : Construct(order, ok, elapsed)
  \/ \E msg \in Questions, res \in EngineResults, elapsed \in Elapsed : Query(msg, res, elapsed)
  \/ GetLoadDuration
  \/ GetQueryDurations
  \/ Tick

SpecAPI == Init /\ [][NextAPI]_vars

\* ------------------------------------------------------------- properties
\* Steps are told apart by the call they record: every step of the
\* environment clears `call`, every call on the API sets it.
IsConstruct == call'.op = "construct"
IsQuery == call'.op = "query"
IsGetter == call'.op \in {"get_load_duration", "get_query_durations"}

\* The newest directory timestamp under the cache directory, written out.
CacheTime(dirs) ==
  CHOOSE t \in {dirs[d] : d \in DOMAIN dirs} : \A d \in DOMAIN dirs : dirs[d] <= t

\* C1: with an existing cache directory, _needs_reindexing returns true if
\* and only if some regular file under the source directory has an mtime
\* strictly greater than the newest directory mtime under the cache
\* directory, whatever the order of the walk (so: false for an empty source
\* directory, and a file exactly as old as the cache does not count).
C1_StaleIffSomeFileNewer ==
  [][(IsConstruct /\ cacheExists) =>
       chk' = <<\E f \in DOMAIN srcFiles : srcFiles[f] > CacheTime(cacheDirs)>>]_vars

\* C1 witness: the check ran and returned true with one file newer than the
\* cache and another exactly as old as it (the failed rebuild left the
\* filesystem as the check saw it).
C1_Witness ==
  /\ call.op = "construct" /\ pc = "failed" /\ cacheExists
  /\ chk = <<TRUE>>
  /\ \E f, g \in DOMAIN srcFiles :
       /\ srcFiles[f] > CacheTime(cacheDirs)
       /\ srcFiles[g] = CacheTime(cacheDirs)

\* C2: a construction takes exactly one of the two paths; it takes the
\* rebuild path if and only if the cache directory is absent or the
\* staleness check returned true, the reload path otherwise; with the cache
\* directory absent the staleness check is not evaluated.  A completed
\* rebuild has persisted the artifacts to the cache directory.
C2_RebuildIffAbsentOrStale ==
  [][IsConstruct =>
       /\ path' \in {"rebuild", "reload"}
       /\ (path' = "rebuild") <=> (~cacheExists \/ chk' = <<TRUE>>)
       /\ ~cacheExists => chk' = <<>>
       /\ (path' = "rebuild" /\ pc' = "ready") =>
             (cacheExists' /\ Artifacts \subseteq DOMAIN cacheFiles')]_vars

\* C2 witness: a construction found the cache directory, evaluated the
\* check, got true and completed the rebuild.
C2_Witness ==
  /\ call.op = "construct" /\ pc = "ready"
  /\ path = "rebuild" /\ chk = <<TRUE>>

\* C3: a completed rebuild leaves a cache whose cache time is not less than
\* the mtime of any source file, whether the cache directory was absent
\* before or existed and had its artifacts overwritten.
C3_RebuildMakesCacheFresh ==
  [][(IsConstruct /\ path' = "rebuild" /\ pc' = "ready") =>
       \A f \in DOMAIN srcFiles : CacheTime(cacheDirs') >= srcFiles[f]]_vars

\* C4: once a construction has completed, every later construction with
\* the source directory unchanged takes the reload path.
C4_NoSpuriousRebuild ==
  [][(IsConstruct /\ srcClean) => path' = "reload"]_vars

\* C5: the query-duration log has one entry per query call that returned,
\* each non-negative; a call that returns appends its entry at the end, a
\* call whose engine call raises and every getter leave the log as it is.
C5_LogOneEntryPerReturnedQuery ==
  /\ [](/\ Len(queryDurations) = okQueries
        /\ \A i \in DOMAIN queryDurations : queryDurations[i] >= 0)
  /\ [][/\ (IsQuery /\ call'.ret[1] = "value") =>
             /\ Len(queryDurations') = Len(queryDurations) + 1
             /\ SubSeq(queryDurations', 1, Len(queryDurations)) = queryDurations
        /\ (IsQuery /\ call'.ret[1] = "raise") => queryDurations' = queryDurations
        /\ IsGetter => queryDurations' = queryDurations]_vars

\* C5 witness: two queries returned and then one raised; the log has the
\* two entries.
C5_Witness ==
  /\ call.op = "query" /\ call.ret[1] = "raise"
  /\ okQueries = 2 /\ Len(queryDurations) = 2

\* C6: with the cache directory present and the source directory missing,
\* construction fails with a NotFoundError/AccessError: the staleness check
\* returns neither true nor false and neither path is taken.
C6_MissingSourceRaises ==
  [][(IsConstruct /\ cacheExists /\ ~srcExists) =>
       /\ chk' = <<>>
       /\ path' = "none"
       /\ call'.ret[1] = "raise"
       /\ call'.ret[2] \in {"NotFoundError", "AccessError"}]_vars

\* C7: query("") fails with InvalidArgument; nothing goes to the engine and
\* nothing is appended to the log.
C7_EmptyQuestionRejected ==
  [][(IsQuery /\ call'.arg = <<"">>) =>
       /\ call'.ret = <<"raise", "InvalidArgument">>
       /\ call'.fwd = <<>>
       /\ queryDurations' = queryDurations]_vars

\* C8: the load duration is set by the construction, on either path, and
\* no query or getter changes it; get_load_duration returns it.
C8_LoadDurationSetOnce ==
  /\ [](pc = "ready" => Len(loadDuration) = 1)
  /\ [](call.op = "get_load_duration" => call.ret = <<"value", loadDuration[1]>>)
  /\ [][(IsQuery \/ IsGetter) => loadDuration' = loadDuration]_vars

\* C8 witness: get_load_duration after a query that returned, on an object
\* whose construction reloaded.
C8_Witness ==
  /\ call.op = "get_load_duration" /\ path = "reload"
  /\ okQueries >= 1
  /\ call.ret = <<"value", loadDuration[1]>>

\* C9: a query call passes its question to the engine exactly once; what
\* the engine returns is returned as it is, with exactly one entry appended
\* to the log; what the engine raises is raised to the caller as it is,
\* with no second engine call.
C9_QueryForwardsOnce ==
  [][IsQuery =>
       /\ call'.fwd = call'.arg
       /\ Len(call'.fwd) = 1
       /\ call'.ret = call'.out
       /\ call'.out[1] = "value" => Len(queryDurations') = Len(queryDurations) + 1]_vars

\* C9 witness: the question went to the engine, the engine raised and the
\* caller got the same error; an earlier query on the object had returned.
C9_Witness ==
  /\ call.op = "query" /\ call.arg = <<"Who own the one ring?">>
  /\ call.out = <<"raise", "BackendError">>
  /\ call.ret = call.out
  /\ okQueries = 1

\* C10: a construction on the reload path, a query and the getters leave
\* the cache directory (existence, directory and file mtimes) unchanged.
C10_CacheWrittenOnlyByRebuild ==
  [][((IsConstruct /\ path' = "reload") \/ IsQuery \/ IsGetter) =>
       UNCHANGED cacheVars]_vars

\* C10 witness: a completed reload from a cache directory that holds the
\* artifacts, at a time later than their last write.
C10_Witness ==
  /\ call.op = "construct" /\ path = "reload" /\ pc = "ready"
  /\ \A a \in Artifacts : a \in DOMAIN cacheFiles /\ cacheFiles[a] < now

====
